---------------------------- MODULE Spec2Model ----------------------------
(***************************************************************************)
(* A model of include/onnxruntime/core/framework/allocator.h:              *)
(*   - the overflow-checked array sizing of IAllocator and the array       *)
(*     allocation helpers built on it,                                     *)
(*   - OrtDevice / OrtMemoryInfo: rendering, ordering and equality,        *)
(*   - the life cycle of an allocator shared through std::shared_ptr and   *)
(*     of the IAllocatorUniquePtr handles MakeUniquePtr hands out.         *)
(* size_t is modelled as an unsigned word of W bits; all size_t arithmetic *)
(* is reduced modulo 2^W.                                                  *)
(***************************************************************************)
EXTENDS Integers, Sequences, FiniteSets, TLC

VARIABLES
  \* one call of a sizing / array allocation routine
  op, alignment, nmemb, size, out, ret, divzero, allocCalls, result,
  \* the template argument and allocator argument of a MakeUniquePtr call,
  \* and the handle it returned
  mk, handle,
  \* OrtMemoryInfo values under comparison and rendering
  a, b, c, cmp, str,
  \* a shared allocator, its holders and the handles it issued
  use_count, alive, teardowns, holds, tpc, tloc, handles, allocLog, freeLog,
  freeOnDead, lastDec

sizingVars == <<op, alignment, nmemb, size, out, ret, divzero, allocCalls,
                result, mk, handle>>
infoVars == <<a, b, c, cmp, str>>
lifeVars == <<use_count, alive, teardowns, holds, tpc, tloc, handles, allocLog,
              freeLog, freeOnDead, lastDec>>
vars == <<sizingVars, infoVars, lifeVars>>

----------------------------------------------------------------------------
(* size_t *)

\* std::numeric_limits<size_t>::digits, scaled down
W == 6

TwoW == 2 ^ W

\* std::numeric_limits<size_t>::max()
SIZE_MAX == TwoW - 1

SizeT == 0 .. SIZE_MAX

\* reduction of an integer to size_t (unsigned wrap-around)
Wrap(x) == ((x % TwoW) + TwoW) % TwoW

RECURSIVE BitAnd(_, _)
\* x & y on size_t
BitAnd(x, y) ==
  IF x = 0 \/ y = 0 THEN 0
  ELSE (x % 2) * (y % 2) + 2 * BitAnd(x \div 2, y \div 2)

\* ~x on size_t
BitNot(x) == SIZE_MAX - x

\* the outcome of a trapping division
DivTrap == -1

\* x / y on size_t. Division by zero is undefined: the build may trap, or
\* yield what the target's divide instruction leaves (0, or all ones).
Div(x, y) == IF y # 0 THEN {x \div y} ELSE {DivTrap, 0, SIZE_MAX}

\* the template arguments the routine accepts: 0 and the powers of two
Alignments == {0} \cup {2 ^ k : k \in 0 .. (W - 1)}

----------------------------------------------------------------------------
(* IAllocator::CalcMemSizeForArrayWithAlignment *)

\* Mutant: the check on the element size (the second if) is left out
CalcMemSize_NoSizeCheck(align, n, sz, out0) ==
  LET max_allowed == Wrap(2 ^ (W \div 2) - align)
      max_size == Wrap(SIZE_MAX - align)
      alignment_mask == Wrap(align - 1)
      Written(dz) ==
        [ret |-> "true",
         len |-> IF align = 0
                 THEN Wrap(sz * n)
                 ELSE BitAnd(Wrap(Wrap(sz * n) + alignment_mask),
                             BitNot(alignment_mask)),
         dz |-> dz]
      Failed(dz) == [ret |-> "false", len |-> out0, dz |-> dz]
  IN IF n >= max_allowed
     THEN { IF q = DivTrap THEN [ret |-> "trap", len |-> out0, dz |-> TRUE]
            ELSE IF q < sz THEN Failed(n = 0)
            ELSE Written(n = 0) : q \in Div(max_size, n) }
     ELSE { Written(FALSE) }

\* The set of outcomes of one call: ret is "true", "false" or "trap",
\* len is *out after the call, dz tells whether max_size / 0 was evaluated.
CalcMemSizeForArrayWithAlignment(align, n, sz, out0) ==
  LET max_allowed == Wrap(2 ^ (W \div 2) - align)
      max_size == Wrap(SIZE_MAX - align)
      alignment_mask == Wrap(align - 1)
      Written(dz) ==
        [ret |-> "true",
         len |-> IF align = 0
                 THEN Wrap(sz * n)
                 ELSE BitAnd(Wrap(Wrap(sz * n) + alignment_mask),
                             BitNot(alignment_mask)),
         dz |-> dz]
      Failed(dz) == [ret |-> "false", len |-> out0, dz |-> dz]
      Second(dz) ==
        IF sz >= max_allowed /\ n > 0 /\ (max_size \div n) < sz
        THEN Failed(dz)
        ELSE Written(dz)
  IN IF n >= max_allowed
     THEN { IF q = DivTrap THEN [ret |-> "trap", len |-> out0, dz |-> TRUE]
            ELSE IF q < sz THEN Failed(n = 0)
            ELSE Second(n = 0) : q \in Div(max_size, n) }
     ELSE { Second(FALSE) }

\* IAllocator::CalcMemSizeForArray
CalcMemSizeForArray(n, sz, out0) == CalcMemSizeForArrayWithAlignment(0, n, sz, out0)

\* the null pointer
NullPtr == 0

\* what the virtual IAllocator::Alloc may return for one request: nullptr
\* on failure, or the address of a new block
AllocResults == {NullPtr, 1}

\* Mutant: the result of the size computation is ignored and Alloc is
\* called with whatever len holds
AllocArray_AlwaysForward(align, n, sz, len0) ==
  UNION { IF r.ret = "trap"
          THEN {[ret |-> r.ret, len |-> r.len, dz |-> r.dz,
                 calls |-> << >>, res |-> NullPtr]}
          ELSE {[ret |-> r.ret, len |-> r.len, dz |-> r.dz,
                 calls |-> <<[size |-> r.len, returned |-> p]>>, res |-> p]
                : p \in AllocResults}
        : r \in CalcMemSizeForArrayWithAlignment(align, n, sz, len0) }

\* IAllocator::AllocArrayWithAlignment: the outcomes of one call, with the
\* calls of Alloc it made (calls: the size requested and what Alloc
\* returned) and the pointer it returns (res). len0 is the indeterminate
\* initial value of the local len. A trapping division ends the process.
AllocArrayWithAlignment(align, n, sz, len0) ==
  UNION { IF r.ret = "trap"
          THEN {[ret |-> r.ret, len |-> r.len, dz |-> r.dz,
                 calls |-> << >>, res |-> NullPtr]}
          ELSE IF r.ret = "false"
          THEN {[ret |-> r.ret, len |-> r.len, dz |-> r.dz,
                 calls |-> << >>, res |-> NullPtr]}
          ELSE {[ret |-> r.ret, len |-> r.len, dz |-> r.dz,
                 calls |-> <<[size |-> r.len, returned |-> p]>>, res |-> p]
                : p \in AllocResults}
        : r \in CalcMemSizeForArrayWithAlignment(align, n, sz, len0) }

\* IAllocator::AllocArray
AllocArray(n, sz, len0) ==
  UNION { IF r.ret = "trap"
          THEN {[ret |-> r.ret, len |-> r.len, dz |-> r.dz,
                 calls |-> << >>, res |-> NullPtr]}
          ELSE IF r.ret = "false"
          THEN {[ret |-> r.ret, len |-> r.len, dz |-> r.dz,
                 calls |-> << >>, res |-> NullPtr]}
          ELSE {[ret |-> r.ret, len |-> r.len, dz |-> r.dz,
                 calls |-> <<[size |-> r.len, returned |-> p]>>, res |-> p]
                : p \in AllocResults}
        : r \in CalcMemSizeForArray(n, sz, len0) }

\* the element types MakeUniquePtr is instantiated with
ElemTypes == {"void", "char", "float", "double"}

\* sizeof(std::conditional<std::is_void<T>::value, void*, T>::type), for
\* the non-void element types
SizeOf(T) ==
  CASE T = "char" -> 1
    [] T = "float" -> 4
    [] T = "double" -> 8

\* Mutant: the element count is multiplied by sizeof(T) without a check
MakeUniquePtrSize_Unchecked(T, count) ==
  IF T = "void"
  THEN {[ret |-> "true", len |-> count, dz |-> FALSE]}
  ELSE {[ret |-> "true", len |-> Wrap(count * SizeOf(T)), dz |-> FALSE]}

\* MakeUniquePtr, the computation of alloc_size: count_or_bytes itself when
\* T is void, else CalcMemSizeForArray(count_or_bytes, sizeof(T), &alloc_size)
MakeUniquePtrSize(T, count) ==
  IF T = "void"
  THEN {[ret |-> "true", len |-> count, dz |-> FALSE]}
  ELSE CalcMemSizeForArray(count, SizeOf(T), count)

\* an IAllocatorUniquePtr constructed from nullptr: no pointer, and a
\* deleter that holds no allocator
EmptyHandle == [ptr |-> NullPtr, deleter |-> FALSE]

\* IAllocator::MakeUniquePtr as one call: allocator is "null" or "shared"
\* (a non-empty std::shared_ptr<IAllocator>). The outcomes give the calls
\* of Alloc made and the handle returned; a handle with deleter = TRUE
\* carries the lambda that captured the allocator.
MakeUniquePtr(allocator, T, count) ==
  IF allocator = "null"
  THEN {[ret |-> "pending", len |-> count, dz |-> FALSE, calls |-> << >>,
         handle |-> EmptyHandle]}
  ELSE UNION { IF r.ret # "true"
               THEN {[ret |-> r.ret, len |-> r.len, dz |-> r.dz,
                      calls |-> << >>, handle |-> EmptyHandle]}
               ELSE {[ret |-> r.ret, len |-> r.len, dz |-> r.dz,
                      calls |-> <<[size |-> r.len, returned |-> p]>>,
                      handle |-> [ptr |-> p, deleter |-> TRUE]]
                     : p \in AllocResults}
             : r \in MakeUniquePtrSize(T, count) }

----------------------------------------------------------------------------
(* One call of a sizing or array allocation routine on arbitrary arguments *)

NoMk == [T |-> "void", allocator |-> "null"]

\* values the caller's result word may hold before the call
OutInit == {0, SIZE_MAX}

ParkedSizing ==
  /\ op = "none" /\ alignment = 0 /\ nmemb = 0 /\ size = 0 /\ out = 0
  /\ ret = "pending" /\ divzero = FALSE /\ allocCalls = << >>
  /\ result = NullPtr /\ mk = NoMk /\ handle = EmptyHandle

ParkedInfo ==
  /\ a = 0 /\ b = 0 /\ c = 0 /\ cmp = 0 /\ str = 0

ParkedLife ==
  /\ use_count = 0 /\ alive = FALSE /\ teardowns = << >> /\ holds = << >>
  /\ tpc = << >> /\ tloc = << >> /\ handles = << >> /\ allocLog = << >>
  /\ freeLog = << >> /\ freeOnDead = FALSE /\ lastDec = 0

InitSizing ==
  /\ op \in {"CalcMemSizeForArray", "CalcMemSizeForArrayWithAlignment",
             "AllocArray", "AllocArrayWithAlignment", "MakeUniquePtr"}
  /\ alignment \in IF op \in {"CalcMemSizeForArrayWithAlignment",
                                "AllocArrayWithAlignment"}
                    THEN Alignments ELSE {0}
  /\ nmemb \in SizeT
  /\ mk \in IF op = "MakeUniquePtr"
             THEN [T : ElemTypes, allocator : {"null", "shared"}]
             ELSE {NoMk}
  /\ size \in IF op = "MakeUniquePtr"
               THEN {IF mk.T = "void" THEN 0 ELSE SizeOf(mk.T)}
               ELSE SizeT
  /\ out \in IF op = "MakeUniquePtr" THEN {nmemb} ELSE OutInit
  /\ handle = EmptyHandle
  /\ ret = "pending"
  /\ divzero = FALSE
  /\ allocCalls = << >>
  /\ result = NullPtr
  /\ ParkedInfo
  /\ ParkedLife

CallCalcMemSizeForArray ==
  /\ op = "CalcMemSizeForArray" /\ ret = "pending"
  /\ \E r \in CalcMemSizeForArray(nmemb, size, out) :
       /\ ret' = r.ret /\ out' = r.len /\ divzero' = r.dz
  /\ UNCHANGED <<op, alignment, nmemb, size, allocCalls, result, mk, handle>>
  /\ UNCHANGED <<infoVars, lifeVars>>

CallCalcMemSizeForArrayWithAlignment ==
  /\ op = "CalcMemSizeForArrayWithAlignment" /\ ret = "pending"
  /\ \E r \in CalcMemSizeForArrayWithAlignment(alignment, nmemb, size, out) :
       /\ ret' = r.ret /\ out' = r.len /\ divzero' = r.dz
  /\ UNCHANGED <<op, alignment, nmemb, size, allocCalls, result, mk, handle>>
  /\ UNCHANGED <<infoVars, lifeVars>>

CallAllocArray ==
  /\ op = "AllocArray" /\ ret = "pending"
  /\ \E r \in AllocArray(nmemb, size, out) :
       /\ ret' = r.ret /\ out' = r.len /\ divzero' = r.dz
       /\ allocCalls' = r.calls /\ result' = r.res
  /\ UNCHANGED <<op, alignment, nmemb, size, mk, handle>>
  /\ UNCHANGED <<infoVars, lifeVars>>

CallAllocArrayWithAlignment ==
  /\ op = "AllocArrayWithAlignment" /\ ret = "pending"
  /\ \E r \in AllocArrayWithAlignment(alignment, nmemb, size, out) :
       /\ ret' = r.ret /\ out' = r.len /\ divzero' = r.dz
       /\ allocCalls' = r.calls /\ result' = r.res
  /\ UNCHANGED <<op, alignment, nmemb, size, mk, handle>>
  /\ UNCHANGED <<infoVars, lifeVars>>

\* out holds alloc_size, initialised to count_or_bytes; ret becomes "done"
\* when the size computation was not reached or not needed
CallMakeUniquePtr ==
  /\ op = "MakeUniquePtr" /\ ret = "pending"
  /\ \E r \in MakeUniquePtr(mk.allocator, mk.T, nmemb) :
       /\ ret' = (IF mk.allocator = "null" \/ mk.T = "void"
                  THEN "done" ELSE r.ret)
       /\ out' = r.len /\ divzero' = r.dz
       /\ allocCalls' = r.calls /\ handle' = r.handle
  /\ UNCHANGED <<op, alignment, nmemb, size, mk, result>>
  /\ UNCHANGED <<infoVars, lifeVars>>

NextSizing ==
  \/ CallCalcMemSizeForArray
  \/ CallCalcMemSizeForArrayWithAlignment
  \/ CallAllocArray
  \/ CallAllocArrayWithAlignment
  \/ CallMakeUniquePtr

SpecSizing == InitSizing /\ [][NextSizing]_vars

----------------------------------------------------------------------------
(* A shared allocator and the handles MakeUniquePtr issues, under threads *)

\* number of threads
NThreads == 2

\* number of MakeUniquePtr calls made in a run
MaxHandles == 2

Threads == 1 .. NThreads

Slots == 1 .. MaxHandles

\* the (T, count_or_bytes) arguments the threads call MakeUniquePtr with:
\* 16 bytes, an array of 16 bytes, an array whose size overflows
Requests ==
  { [T |-> "void", count |-> 16],
    [T |-> "float", count |-> 4],
    [T |-> "float", count |-> SIZE_MAX] }

\* the locals of a thread outside any call. params counts the by-value
\* allocator parameters of the thread's MakeUniquePtr calls that are not
\* destroyed yet: a parameter lives until the end of the full-expression
\* that contains the call, or dies on return, as the ABI has it
NoLocals ==
  [allocator |-> "null", T |-> "void", count |-> 0, alloc_size |-> 0,
   ptr |-> NullPtr, k |-> 0, params |-> 0]

\* the locals of thread t once its current call is over
AfterCall(t) == [NoLocals EXCEPT !.params = tloc[t].params]

UnusedHandle == [state |-> "unused", ptr |-> NullPtr, deleter |-> FALSE]

\* the use count has not reached zero yet
NoDec == [by |-> 0, via |-> "none"]

\* a std::shared_ptr<IAllocator> made by thread 1; no handle issued yet
InitLife ==
  /\ use_count = 1
  /\ alive = TRUE
  /\ teardowns = << >>
  /\ holds = [t \in Threads |-> t = 1]
  /\ tpc = [t \in Threads |-> "idle"]
  /\ tloc = [t \in Threads |-> NoLocals]
  /\ handles = [k \in Slots |-> UnusedHandle]
  /\ allocLog = [k \in Slots |-> << >>]
  /\ freeLog = [k \in Slots |-> << >>]
  /\ freeOnDead = FALSE
  /\ lastDec = NoDec
  /\ ParkedSizing
  /\ ParkedInfo

\* Mutant: the allocator is destroyed one release too early
ReleaseRef_OffByOne(t, via) ==
  /\ use_count' = use_count - 1
  /\ IF use_count <= 2
     THEN /\ alive' = FALSE
          /\ teardowns' = Append(teardowns, t)
          /\ lastDec' = [by |-> t, via |-> via]
     ELSE UNCHANGED <<alive, teardowns, lastDec>>

\* ~shared_ptr / shared_ptr::reset by thread t: the use count drops by one
\* atomically, and the thread that takes it to zero destroys the allocator.
\* via names the owner of the reference: "holder" (an AllocatorPtr of a
\* thread), "parameter" (MakeUniquePtr's argument), "handle" (a deleter).
\* lastDec records the release that took the use count to zero.
ReleaseRef(t, via) ==
  /\ use_count' = use_count - 1
  /\ IF use_count = 1
     THEN /\ alive' = FALSE
          /\ teardowns' = Append(teardowns, t)
          /\ lastDec' = [by |-> t, via |-> via]
     ELSE UNCHANGED <<alive, teardowns, lastDec>>

\* copy construction of a shared_ptr: the use count grows by one
AcquireRef == use_count' = use_count + 1

\* thread t, holding an AllocatorPtr, hands a copy to thread u
CopyReference(t, u) ==
  /\ tpc[t] = "idle" /\ holds[t] /\ ~holds[u]
  /\ AcquireRef
  /\ holds' = [holds EXCEPT ![u] = TRUE]
  /\ UNCHANGED <<alive, teardowns, tpc, tloc, handles, allocLog, freeLog,
                 freeOnDead, lastDec>>
  /\ UNCHANGED <<sizingVars, infoVars>>

\* thread t drops the AllocatorPtr it holds
DropReference(t) ==
  /\ tpc[t] = "idle" /\ holds[t]
  /\ holds' = [holds EXCEPT ![t] = FALSE]
  /\ ReleaseRef(t, "holder")
  /\ UNCHANGED <<tpc, tloc, handles, allocLog, freeLog, freeOnDead>>
  /\ UNCHANGED <<sizingVars, infoVars>>

\* thread t calls MakeUniquePtr<T>(allocator, count): the by-value
\* parameter is a copy of the caller's AllocatorPtr, or empty
EnterMakeUniquePtr(t, k, arg, req) ==
  /\ tpc[t] = "idle"
  /\ handles[k].state = "unused"
  /\ \A j \in Slots : j < k => handles[j].state # "unused"
  /\ arg = "shared" => holds[t]
  /\ IF arg = "shared" THEN AcquireRef ELSE UNCHANGED use_count
  /\ tloc' = [tloc EXCEPT ![t] =
               [allocator |-> arg, T |-> req.T, count |-> req.count,
                alloc_size |-> req.count, ptr |-> NullPtr, k |-> k,
                params |-> IF arg = "shared" THEN tloc[t].params + 1
                           ELSE tloc[t].params]]
  /\ handles' = [handles EXCEPT ![k].state = "making"]
  /\ tpc' = [tpc EXCEPT ![t] = "mk_check"]
  /\ UNCHANGED <<alive, teardowns, holds, allocLog, freeLog, freeOnDead,
                 lastDec>>
  /\ UNCHANGED <<sizingVars, infoVars>>

\* MakeUniquePtr up to the call of Alloc: an empty allocator, or a size
\* that overflows, returns an empty handle; the parameter outlives the
\* return
CheckAndSize(t) ==
  /\ tpc[t] = "mk_check"
  /\ IF tloc[t].allocator = "null"
     THEN /\ handles' = [handles EXCEPT ![tloc[t].k] =
                          [state |-> "live", ptr |-> NullPtr,
                           deleter |-> FALSE]]
          /\ tpc' = [tpc EXCEPT ![t] = "idle"]
          /\ tloc' = [tloc EXCEPT ![t] = AfterCall(t)]
     ELSE \E r \in MakeUniquePtrSize(tloc[t].T, tloc[t].count) :
            IF r.ret = "true"
            THEN /\ tloc' = [tloc EXCEPT ![t].alloc_size = r.len]
                 /\ tpc' = [tpc EXCEPT ![t] = "mk_alloc"]
                 /\ UNCHANGED handles
            ELSE /\ handles' = [handles EXCEPT ![tloc[t].k] =
                                 [state |-> "live", ptr |-> NullPtr,
                                  deleter |-> FALSE]]
                 /\ tpc' = [tpc EXCEPT ![t] = "idle"]
                 /\ tloc' = [tloc EXCEPT ![t] = AfterCall(t)]
  /\ UNCHANGED <<use_count, alive, teardowns, lastDec>>
  /\ UNCHANGED <<holds, allocLog, freeLog, freeOnDead>>
  /\ UNCHANGED <<sizingVars, infoVars>>

\* allocator->Alloc(alloc_size): nullptr, or a block no other request got
CallAlloc(t) ==
  /\ tpc[t] = "mk_alloc"
  /\ \E p \in {NullPtr, tloc[t].k} :
       /\ allocLog' = [allocLog EXCEPT ![tloc[t].k] =
                         Append(@, [size |-> tloc[t].alloc_size,
                                    returned |-> p])]
       /\ tloc' = [tloc EXCEPT ![t].ptr = p]
  /\ tpc' = [tpc EXCEPT ![t] = "mk_wrap"]
  /\ UNCHANGED <<use_count, alive, teardowns, holds, handles, freeLog,
                 freeOnDead, lastDec>>
  /\ UNCHANGED <<sizingVars, infoVars>>

\* Mutant: the lambda captures the allocator by reference, so the deleter
\* holds no share of it
WrapHandle_NoCapture(t) ==
  /\ tpc[t] = "mk_wrap"
  /\ handles' = [handles EXCEPT ![tloc[t].k] =
                   [state |-> "live", ptr |-> tloc[t].ptr, deleter |-> FALSE]]
  /\ tpc' = [tpc EXCEPT ![t] = "idle"]
  /\ tloc' = [tloc EXCEPT ![t] = AfterCall(t)]
  /\ UNCHANGED <<use_count, alive, teardowns, holds, allocLog, freeLog,
                 freeOnDead, lastDec>>
  /\ UNCHANGED <<sizingVars, infoVars>>

\* the IAllocatorUniquePtr is built, its deleter the lambda that captured
\* the allocator by copy, and returned to the caller; the parameter
\* outlives the return
WrapHandle(t) ==
  /\ tpc[t] = "mk_wrap"
  /\ AcquireRef
  /\ handles' = [handles EXCEPT ![tloc[t].k] =
                   [state |-> "live", ptr |-> tloc[t].ptr, deleter |-> TRUE]]
  /\ tpc' = [tpc EXCEPT ![t] = "idle"]
  /\ tloc' = [tloc EXCEPT ![t] = AfterCall(t)]
  /\ UNCHANGED <<alive, teardowns, holds, allocLog, freeLog, freeOnDead,
                 lastDec>>
  /\ UNCHANGED <<sizingVars, infoVars>>

\* a by-value allocator parameter of a MakeUniquePtr call thread t made is
\* destroyed: right after the return, or later in the full-expression that
\* contains the call, after the caller released the handle or dropped its
\* own AllocatorPtr
DestroyParameter(t) ==
  /\ tpc[t] = "idle"
  /\ tloc[t].params > 0
  /\ ReleaseRef(t, "parameter")
  /\ tloc' = [tloc EXCEPT ![t].params = @ - 1]
  /\ UNCHANGED <<holds, tpc, handles, allocLog, freeLog, freeOnDead>>
  /\ UNCHANGED <<sizingVars, infoVars>>

\* Mutant: the deleter is invoked whether or not the pointer is null
ReleaseHandle_NoNullCheck(t, k) ==
  /\ tpc[t] = "idle"
  /\ handles[k].state = "live"
  /\ freeLog' = [freeLog EXCEPT ![k] = Append(@, handles[k].ptr)]
  /\ freeOnDead' = (freeOnDead \/ ~alive)
  /\ handles' = [handles EXCEPT ![k].state = "releasing"]
  /\ tloc' = [tloc EXCEPT ![t].k = k]
  /\ tpc' = [tpc EXCEPT ![t] = "rel_drop"]
  /\ UNCHANGED <<use_count, alive, teardowns, holds, allocLog, lastDec>>
  /\ UNCHANGED <<sizingVars, infoVars>>

\* ~unique_ptr of handle k, run by thread t: the deleter is invoked on the
\* pointer if the pointer is not null, and the lambda calls
\* allocator->Free(ptr)
ReleaseHandle(t, k) ==
  /\ tpc[t] = "idle"
  /\ handles[k].state = "live"
  /\ IF handles[k].ptr # NullPtr
     THEN /\ freeLog' = [freeLog EXCEPT ![k] =
                          Append(@, handles[k].ptr)]
          /\ freeOnDead' = (freeOnDead \/ ~alive)
     ELSE UNCHANGED <<freeLog, freeOnDead>>
  /\ handles' = [handles EXCEPT ![k].state = "releasing"]
  /\ tloc' = [tloc EXCEPT ![t].k = k]
  /\ tpc' = [tpc EXCEPT ![t] = "rel_drop"]
  /\ UNCHANGED <<use_count, alive, teardowns, holds, allocLog, lastDec>>
  /\ UNCHANGED <<sizingVars, infoVars>>

\* ~unique_ptr, second half: the deleter is destroyed, and with it the
\* AllocatorPtr the lambda captured
DestroyDeleter(t) ==
  /\ tpc[t] = "rel_drop"
  /\ IF handles[tloc[t].k].deleter
     THEN ReleaseRef(t, "handle")
     ELSE UNCHANGED <<use_count, alive, teardowns, lastDec>>
  /\ handles' = [handles EXCEPT ![tloc[t].k].state = "released"]
  /\ tpc' = [tpc EXCEPT ![t] = "idle"]
  /\ tloc' = [tloc EXCEPT ![t] = AfterCall(t)]
  /\ UNCHANGED <<holds, allocLog, freeLog, freeOnDead>>
  /\ UNCHANGED <<sizingVars, infoVars>>

NextLife ==
  \/ \E t \in Threads, u \in Threads : CopyReference(t, u)
  \/ \E t \in Threads : DropReference(t)
  \/ \E t \in Threads, k \in Slots, arg \in {"null", "shared"},
        req \in Requests : EnterMakeUniquePtr(t, k, arg, req)
  \/ \E t \in Threads : CheckAndSize(t)
  \/ \E t \in Threads : CallAlloc(t)
  \/ \E t \in Threads : WrapHandle(t)
  \/ \E t \in Threads : DestroyParameter(t)
  \/ \E t \in Threads, k \in Slots : ReleaseHandle(t, k)
  \/ \E t \in Threads : DestroyDeleter(t)

SpecLife == InitLife /\ [][NextLife]_vars

----------------------------------------------------------------------------
(* Properties of the sizing routines *)

SizingDone == ret # "pending"

\* p rounded up to the next multiple of align, over the integers
RoundUp(p, align) == IF align = 0 THEN p ELSE ((p + align - 1) \div align) * align

\* C1: for every element count, element size and power-of-two alignment
\* (0 included), CalcMemSizeForArrayWithAlignment succeeds iff the exact
\* product rounded up to the alignment fits the size word, and on success
\* writes exactly that rounded-up product.
C1_SizingExact ==
  (op \in {"CalcMemSizeForArray", "CalcMemSizeForArrayWithAlignment"}
     /\ SizingDone)
  => /\ (ret = "true") <=> (RoundUp(nmemb * size, alignment) <= SIZE_MAX)
     /\ (ret = "true") => (out = RoundUp(nmemb * size, alignment))

\* C2: CalcMemSizeForArray (alignment 0) succeeds with exactly
\* nmemb * size whenever the exact product fits the size word, and fails
\* whenever it does not.
C2_NoAlignmentExact ==
  (op = "CalcMemSizeForArray" /\ SizingDone)
  => /\ (nmemb * size <= SIZE_MAX) => (ret = "true" /\ out = nmemb * size)
     /\ (nmemb * size > SIZE_MAX) => (ret = "false")

\* C2's case: a product that exactly fills the size word is accepted
C2_Witness ==
  /\ op = "CalcMemSizeForArray" /\ ret = "true"
  /\ nmemb * size = SIZE_MAX /\ out = SIZE_MAX /\ nmemb > 1

\* C3: AllocArray and AllocArrayWithAlignment return null without calling
\* Alloc when the size computation reports overflow; when it succeeds they
\* call Alloc exactly once, with the computed size, and return what Alloc
\* returned.
C3_ForwardOnlyOnSuccess ==
  (op \in {"AllocArray", "AllocArrayWithAlignment"} /\ SizingDone)
  => /\ (ret = "false") => (result = NullPtr /\ allocCalls = << >>)
     /\ (ret = "true") =>
          /\ Len(allocCalls) = 1
          /\ allocCalls[1].size = out
          /\ allocCalls[1].returned = result
          /\ \E r \in CalcMemSizeForArrayWithAlignment(alignment, nmemb, size, 0) :
                r.ret = "true" /\ r.len = allocCalls[1].size

\* C3's case: an aligned request was forwarded and the block returned
C3_Witness ==
  /\ op = "AllocArrayWithAlignment" /\ ret = "true" /\ alignment = 4
  /\ nmemb = 3 /\ size = 3 /\ Len(allocCalls) = 1 /\ allocCalls[1].size = 12
  /\ result # NullPtr

\* C4: MakeUniquePtr with an empty allocator handle returns an empty handle
\* and calls nothing; with a non-empty one it calls Alloc with exactly N
\* bytes for T = void, with N * sizeof(T) bytes (no rounding, alignment 0)
\* for another T, and when N * sizeof(T) overflows it returns an empty
\* handle without calling Alloc.
C4_MakeUniquePtrSizes ==
  (op = "MakeUniquePtr" /\ SizingDone)
  => /\ (mk.allocator = "null") =>
          (handle = EmptyHandle /\ allocCalls = << >>)
     /\ (mk.allocator = "shared" /\ mk.T = "void") =>
          (/\ Len(allocCalls) = 1 /\ allocCalls[1].size = nmemb
           /\ handle = [ptr |-> allocCalls[1].returned, deleter |-> TRUE])
     /\ (mk.allocator = "shared" /\ mk.T # "void"
           /\ nmemb * SizeOf(mk.T) <= SIZE_MAX) =>
          (/\ Len(allocCalls) = 1
           /\ allocCalls[1].size = RoundUp(nmemb * SizeOf(mk.T), 0)
           /\ handle = [ptr |-> allocCalls[1].returned, deleter |-> TRUE])
     /\ (mk.allocator = "shared" /\ mk.T # "void"
           /\ nmemb * SizeOf(mk.T) > SIZE_MAX) =>
          (handle = EmptyHandle /\ allocCalls = << >>)

\* C4's case: four floats are requested as 16 bytes
C4_Witness ==
  /\ op = "MakeUniquePtr" /\ SizingDone
  /\ mk = [T |-> "float", allocator |-> "shared"] /\ nmemb = 4
  /\ allocCalls = <<[size |-> 16, returned |-> handle.ptr]>>
  /\ handle.ptr # NullPtr

\* C10: no call of CalcMemSizeForArrayWithAlignment divides by zero; every
\* call returns true or false.
C10_NoDivisionByZero ==
  (op \in {"CalcMemSizeForArray", "CalcMemSizeForArrayWithAlignment"}
     /\ SizingDone)
  => (~divzero /\ ret \in {"true", "false"})

----------------------------------------------------------------------------
(* OrtDevice and OrtMemoryInfo *)

\* the allocator names defined next to IAllocator
Names == {"Cpu", "Cuda", "CudaPinned"}

\* the characters of a name, as unsigned char values
Chars(name) ==
  CASE name = "Cpu" -> <<67, 112, 117>>
    [] name = "Cuda" -> <<67, 117, 100, 97>>
    [] name = "CudaPinned" -> <<67, 117, 100, 97, 80, 105, 110, 110, 101, 100>>

\* the NUL-terminated array a const char* name points to
CStr(name) == Chars(name) \o <<0>>

RECURSIVE strcmp(_, _)
\* strcmp on two NUL-terminated arrays: the difference of the first pair of
\* bytes that differ, 0 when both end together
strcmp(s1, s2) ==
  IF Head(s1) # Head(s2) THEN Head(s1) - Head(s2)
  ELSE IF Head(s1) = 0 THEN 0
  ELSE strcmp(Tail(s1), Tail(s2))

\* Mutant: the numeric id is not compared
OrtMemoryInfoLess_NoId(l, r) ==
  IF l.type # r.type THEN l.type < r.type
  ELSE IF l.mem_type # r.mem_type THEN l.mem_type < r.mem_type
  ELSE strcmp(CStr(l.name), CStr(r.name)) < 0

\* OrtMemoryInfo::operator<
OrtMemoryInfoLess(l, r) ==
  IF l.type # r.type THEN l.type < r.type
  ELSE IF l.mem_type # r.mem_type THEN l.mem_type < r.mem_type
  ELSE IF l.id # r.id THEN l.id < r.id
  ELSE strcmp(CStr(l.name), CStr(r.name)) < 0

\* operator==(const OrtMemoryInfo&, const OrtMemoryInfo&)
OrtMemoryInfoEq(l, r) ==
  /\ l.mem_type = r.mem_type /\ l.type = r.type /\ l.id = r.id
  /\ strcmp(CStr(l.name), CStr(r.name)) = 0

DecimalDigits == <<"0", "1", "2", "3", "4", "5", "6", "7", "8", "9">>

RECURSIVE NatToStr(_)
NatToStr(n) ==
  IF n < 10 THEN DecimalDigits[n + 1]
  ELSE NatToStr(n \div 10) \o DecimalDigits[(n % 10) + 1]

\* std::ostream << of an integer: decimal, '-' before a negative value
IntToStr(i) == IF i < 0 THEN "-" \o NatToStr(0 - i) ELSE NatToStr(i)

\* OrtDevice::ToString
OrtDeviceToString(d) ==
  "Device: [" \o " type:" \o IntToStr(d.device_type)
              \o " memory_type:" \o IntToStr(d.memory_type)
              \o " device_id:" \o IntToStr(d.device_id)
              \o "]"

\* Mutant: mem_type and type are written in the other order
OrtMemoryInfoToString_Swapped(m) ==
  "OrtMemoryInfo: [" \o " name:" \o m.name
                     \o " id:" \o IntToStr(m.id)
                     \o " type:" \o IntToStr(m.type)
                     \o " mem_type:" \o IntToStr(m.mem_type)
                     \o "]"

\* OrtMemoryInfo::ToString
OrtMemoryInfoToString(m) ==
  "OrtMemoryInfo: [" \o " name:" \o m.name
                     \o " id:" \o IntToStr(m.id)
                     \o " mem_type:" \o IntToStr(m.mem_type)
                     \o " type:" \o IntToStr(m.type)
                     \o "]"

----------------------------------------------------------------------------
(* Descriptors under comparison *)

\* largest numeric id of the descriptors compared
MaxId == 1

\* largest magnitude of the integers rendered
MaxRender == 12

\* OrtDevice values: CPU/DEFAULT/0 (the default) and a pinned GPU device
OrderDevices ==
  { [device_type |-> 0, memory_type |-> 0, device_id |-> 0],
    [device_type |-> 1, memory_type |-> 1, device_id |-> 1] }

\* OrtMemoryInfo values: type ranges over OrtDeviceAllocator and
\* OrtArenaAllocator, mem_type over OrtMemTypeCPUOutput and OrtMemTypeDefault
OrderInfos ==
  [name : Names, id : 0 .. MaxId, mem_type : {-1, 0}, type : {0, 1},
   device : OrderDevices]

NoCmp ==
  [done |-> FALSE, aa |-> FALSE, ab |-> FALSE, ba |-> FALSE, bc |-> FALSE,
   ac |-> FALSE, eq_ab |-> FALSE, eq_ba |-> FALSE, eq_bc |-> FALSE,
   eq_ac |-> FALSE]

NoStr == [what |-> "none", text |-> ""]

InitOrder ==
  /\ a \in OrderInfos /\ b \in OrderInfos /\ c \in OrderInfos
  /\ cmp = NoCmp
  /\ str = NoStr
  /\ ParkedSizing
  /\ ParkedLife

\* evaluate operator< and operator== on the descriptors held
Compare ==
  /\ ~cmp.done
  /\ cmp' = [done |-> TRUE,
             aa |-> OrtMemoryInfoLess(a, a),
             ab |-> OrtMemoryInfoLess(a, b),
             ba |-> OrtMemoryInfoLess(b, a),
             bc |-> OrtMemoryInfoLess(b, c),
             ac |-> OrtMemoryInfoLess(a, c),
             eq_ab |-> OrtMemoryInfoEq(a, b),
             eq_ba |-> OrtMemoryInfoEq(b, a),
             eq_bc |-> OrtMemoryInfoEq(b, c),
             eq_ac |-> OrtMemoryInfoEq(a, c)]
  /\ UNCHANGED <<a, b, c, str>>
  /\ UNCHANGED <<sizingVars, lifeVars>>

NextOrder == Compare

SpecOrder == InitOrder /\ [][NextOrder]_vars

\* the integers rendered: negative, zero, one and two digits
RenderInts == (0 - MaxRender) .. MaxRender

RenderDevices ==
  [device_type : 0 .. 2, memory_type : 0 .. 1, device_id : RenderInts]

RenderInfos ==
  [name : Names, id : RenderInts, mem_type : -2 .. 0, type : -1 .. 1,
   device : RenderDevices]

InitRender ==
  /\ a \in RenderInfos /\ b = a /\ c = a
  /\ cmp = NoCmp
  /\ str = NoStr
  /\ ParkedSizing
  /\ ParkedLife

RenderDevice ==
  /\ str.what = "none"
  /\ str' = [what |-> "OrtDevice", text |-> OrtDeviceToString(a.device)]
  /\ UNCHANGED <<a, b, c, cmp>>
  /\ UNCHANGED <<sizingVars, lifeVars>>

RenderMemoryInfo ==
  /\ str.what = "none"
  /\ str' = [what |-> "OrtMemoryInfo", text |-> OrtMemoryInfoToString(a)]
  /\ UNCHANGED <<a, b, c, cmp>>
  /\ UNCHANGED <<sizingVars, lifeVars>>

NextRender == RenderDevice \/ RenderMemoryInfo

SpecRender == InitRender /\ [][NextRender]_vars

----------------------------------------------------------------------------
(* Properties of OrtMemoryInfo *)

\* s1 precedes s2 in lexicographic order of their characters
LexLess(s1, s2) ==
  \E k \in 1 .. Len(s2) :
    /\ \A i \in 1 .. (k - 1) : i <= Len(s1) /\ s1[i] = s2[i]
    /\ (k > Len(s1) \/ s1[k] < s2[k])

\* the order the descriptors are meant to have: type, then mem_type, then
\* id, then name; the first field that differs decides
KeyLess(l, r) ==
  \/ l.type < r.type
  \/ l.type = r.type /\ l.mem_type < r.mem_type
  \/ l.type = r.type /\ l.mem_type = r.mem_type /\ l.id < r.id
  \/ l.type = r.type /\ l.mem_type = r.mem_type /\ l.id = r.id
       /\ LexLess(Chars(l.name), Chars(r.name))

ExactlyOne(p, q, r) ==
  (p \/ q \/ r) /\ ~(p /\ q) /\ ~(p /\ r) /\ ~(q /\ r)

\* C8: operator< on OrtMemoryInfo is a strict weak ordering that compares
\* type, then mem_type, then id, then name lexicographically, and exactly
\* one of a<b, b<a, a==b holds for any two descriptors; the device field
\* takes part in neither relation.
C8_StrictWeakOrder ==
  cmp.done
  => /\ ~cmp.aa
     /\ ExactlyOne(cmp.ab, cmp.ba, cmp.eq_ab)
     /\ cmp.eq_ab = cmp.eq_ba
     /\ (cmp.ab /\ cmp.bc) => cmp.ac
     /\ (cmp.eq_ab /\ cmp.eq_bc) => cmp.eq_ac
     /\ cmp.ab = KeyLess(a, b)
     /\ cmp.eq_ab = (<<a.type, a.mem_type, a.id, a.name>>
                       = <<b.type, b.mem_type, b.id, b.name>>)

\* C8's case: two descriptors that differ only in name (one a prefix of the
\* other) and in device, chained to a third by id
C8_Witness ==
  /\ cmp.done
  /\ a.name = "Cuda" /\ b.name = "CudaPinned" /\ a.device # b.device
  /\ a.type = b.type /\ a.mem_type = b.mem_type /\ a.id = b.id
  /\ c.type = b.type /\ c.mem_type = b.mem_type /\ c.id > b.id
  /\ c.name = "Cpu"
  /\ cmp.ab /\ cmp.bc /\ cmp.ac /\ ~cmp.ba /\ ~cmp.eq_ab

\* C9 as stated: both renderings close with " ]", a space before the bracket
C9_FormatWithSpace ==
  /\ (str.what = "OrtDevice") =>
       str.text = "Device: [ type:" \o ToString(a.device.device_type)
                  \o " memory_type:" \o ToString(a.device.memory_type)
                  \o " device_id:" \o ToString(a.device.device_id) \o " ]"
  /\ (str.what = "OrtMemoryInfo") =>
       str.text = "OrtMemoryInfo: [ name:" \o a.name
                  \o " id:" \o ToString(a.id)
                  \o " mem_type:" \o ToString(a.mem_type)
                  \o " type:" \o ToString(a.type) \o " ]"

\* C9 (amended): the renderings are
\* `Device: [ type:<int> memory_type:<int> device_id:<int>]` and
\* `OrtMemoryInfo: [ name:<string> id:<int> mem_type:<int> type:<int>]`,
\* the integers in decimal, with no space before the closing bracket.
C9_Format ==
  /\ (str.what = "OrtDevice") =>
       str.text = "Device: [ type:" \o ToString(a.device.device_type)
                  \o " memory_type:" \o ToString(a.device.memory_type)
                  \o " device_id:" \o ToString(a.device.device_id) \o "]"
  /\ (str.what = "OrtMemoryInfo") =>
       str.text = "OrtMemoryInfo: [ name:" \o a.name
                  \o " id:" \o ToString(a.id)
                  \o " mem_type:" \o ToString(a.mem_type)
                  \o " type:" \o ToString(a.type) \o "]"

\* C9's case: a descriptor with a negative and a two-digit field rendered
C9_Witness ==
  /\ str.what = "OrtMemoryInfo"
  /\ a.name = "CudaPinned" /\ a.id = 10 /\ a.mem_type = -2 /\ a.type = 1
  /\ str.text = "OrtMemoryInfo: [ name:CudaPinned id:10 mem_type:-2 type:1]"

----------------------------------------------------------------------------
(* Properties of the allocator's life cycle *)

\* the by-value allocator parameters not destroyed yet, (thread, index)
InFlight ==
  {q \in Threads \X Slots : q[2] <= tloc[q[1]].params}

\* the handles not yet destroyed whose deleter captured the allocator
Capturing ==
  {k \in Slots : handles[k].deleter
                   /\ handles[k].state \in {"live", "releasing"}}

Holders == {t \in Threads : holds[t]}

\* C5: the allocator is destroyed only when the last reference to it is
\* released, the references captured by outstanding handles included; so
\* every Free a handle issues reaches a live allocator, even after every
\* other holder dropped its reference.
C5_AllocatorOutlivesHandles ==
  /\ alive <=> (Holders # {} \/ InFlight # {} \/ Capturing # {})
  /\ use_count = Cardinality(Holders) + Cardinality(InFlight)
                   + Cardinality(Capturing)
  /\ ~freeOnDead

\* C5's case: no thread holds the allocator any more, and a handle's
\* deleter has just called Free on the allocator that handle alone keeps
C5_Witness ==
  \E t \in Threads :
    /\ tpc[t] = "rel_drop"
    /\ Holders = {} /\ InFlight = {}
    /\ Capturing = {tloc[t].k}
    /\ Len(freeLog[tloc[t].k]) = 1
    /\ alive /\ use_count = 1

\* C6: a handle calls Free exactly once, when it is released, with the
\* pointer Alloc returned, and only if that pointer is not null; a handle
\* whose Alloc returned null never calls Free.
C6_FreeOnceOnRelease ==
  \A k \in Slots :
    /\ handles[k].state \in {"unused", "making", "live"} => freeLog[k] = << >>
    /\ handles[k].state \in {"releasing", "released"} =>
         IF handles[k].ptr # NullPtr
         THEN /\ Len(freeLog[k]) = 1
              /\ freeLog[k][1] = handles[k].ptr
              /\ Len(allocLog[k]) = 1
              /\ allocLog[k][1].returned = handles[k].ptr
         ELSE freeLog[k] = << >>

\* C6's case: one released handle freed its block once, another, whose
\* Alloc had returned null, was released without a Free
C6_Witness ==
  \E k \in Slots, j \in Slots :
    /\ handles[k].state = "released" /\ handles[k].ptr # NullPtr
    /\ Len(freeLog[k]) = 1
    /\ handles[j].state = "released" /\ handles[j].deleter
    /\ Len(allocLog[j]) = 1 /\ allocLog[j][1].returned = NullPtr
    /\ freeLog[j] = << >>

\* C7: under every interleaving, a block is freed at most once and only
\* after the Alloc that returned it; the allocator is torn down exactly
\* once, by the thread whose release took the use count to zero.
C7_PairwiseOrderAndSingleTeardown ==
  /\ \A k \in Slots :
       /\ Len(freeLog[k]) <= 1
       /\ freeLog[k] # << >> =>
            /\ Len(allocLog[k]) = 1
            /\ allocLog[k][1].returned = freeLog[k][1]
            /\ freeLog[k][1] # NullPtr
            /\ \A t \in Threads :
                 ~(tpc[t] \in {"mk_check", "mk_alloc"} /\ tloc[t].k = k)
  /\ \A k \in Slots, j \in Slots :
       (k # j /\ freeLog[k] # << >> /\ freeLog[j] # << >>)
       => freeLog[k][1] # freeLog[j][1]
  /\ Len(teardowns) <= 1
  /\ (Len(teardowns) = 1) <=> (use_count = 0)
  /\ teardowns # << >> => teardowns[1] = lastDec.by

\* C7's case: thread 2, which never made a handle's allocator, released the
\* last outstanding handle after its block was freed, and tore the
\* allocator down
C7_Witness ==
  /\ teardowns = <<2>>
  /\ lastDec = [by |-> 2, via |-> "handle"]
  /\ \A j \in Slots : handles[j].state = "released" /\ Len(freeLog[j]) = 1

=============================================================================
